---- MODULE Spec2Model ----
(***************************************************************************)
(* gunicorn/instrument/prometheus.py: the Prometheus logger, which counts  *)
(* the error-level log calls in an OpenTelemetry counter, and the          *)
(* UvicornHandler, which turns access-log records into samples of a        *)
(* request-time histogram.  The meter provider, its periodic reader and    *)
(* the exporter are the OpenTelemetry SDK's; they are modelled here only   *)
(* as far as __init__ configures them.                                     *)
(***************************************************************************)
EXTENDS Bags, FiniteSets, Integers, Sequences, TLC

\* ---------------------------------------------------------------- bounds
MaxCalls == 3        \* log calls issued on the adapter
MaxInits == 2        \* constructions of the adapter in the process
MaxDeliveries == 2   \* records handed to the "gunicorn.access" logger
MaxTicks == 3        \* ticks of the periodic readers
MaxForks == 1        \* forks of the process

\* the threads of the process that call the adapter
Threads == {"t1", "t2"}

\* ------------------------------------------------------- Python values
\* A Python value as far as float() and the label dictionaries look at it:
\* an int, a str (its characters) or None.
PyInt(n) == [t |-> "int", i |-> n, s |-> <<>>]
PyStr(chars) == [t |-> "str", i |-> 0, s |-> chars]
PyNone == [t |-> "none", i |-> 0, s |-> <<>>]

DigitChars == <<"0", "1", "2", "3", "4", "5", "6", "7", "8", "9">>

DigitValue(c) == (CHOOSE k \in 1..Len(DigitChars) : DigitChars[k] = c) - 1

IsDigit(c) == \E k \in 1..Len(DigitChars) : DigitChars[k] = c

RECURSIVE ParseDigits(_)
ParseDigits(chars) ==
    IF chars = <<>> THEN 0
    ELSE ParseDigits(SubSeq(chars, 1, Len(chars) - 1)) * 10
         + DigitValue(chars[Len(chars)])

\* str(n) for n >= 0: what the access logger writes into the record.
RECURSIVE Digits(_)
Digits(n) ==
    IF n < 10 THEN <<DigitChars[n + 1]>>
    ELSE Append(Digits(n \div 10), DigitChars[(n % 10) + 1])

\* float(x): the number, or the exception float() raises.
Float(x) ==
    IF x.t = "int" THEN [raised |-> "none", num |-> x.i]
    ELSE IF x.t = "none" THEN [raised |-> "TypeError", num |-> 0]
    ELSE IF x.s # <<>> /\ \A k \in 1..Len(x.s) : IsDigit(x.s[k])
         THEN [raised |-> "none", num |-> ParseDigits(x.s)]
         ELSE [raised |-> "ValueError", num |-> 0]

\* ------------------------------------------------------- configuration
\* cfg.otlp_endpoint: a (host, port) pair, or something that is not a pair
GoodEndpoint == <<"localhost", PyInt(4317)>>

Endpoints == {GoodEndpoint, <<"", PyStr(<<"x">>)>>, <<"localhost">>}

ExporterKinds == {"console", "otlp", "unset"}

Intervals == {PyInt(1000), PyInt(0), PyStr(<<"a">>)}

Cfgs == [otlp_endpoint : Endpoints,
         otel_metrics_exporter : ExporterKinds,
         otel_exporter_millis : Intervals]

DefaultCfg == [otlp_endpoint |-> GoodEndpoint,
               otel_metrics_exporter |-> "otlp",
               otel_exporter_millis |-> PyInt(1000)]

\* ------------------------------------------------------------- logging
Severities == {"critical", "error", "warning", "exception"}

Methods == Severities \cup {"info", "debug", "log"}

Levels == {"INFO", "DEBUG"}

Payloads == {[msg |-> "boot", args |-> "()"],
             [msg |-> "fail %s", args |-> "(x), exc_info=True"]}

Idle == [pc |-> "idle", method |-> "", lvl |-> "", msg |-> "", args |-> ""]

Frame(pc, method, lvl, p) ==
    [pc |-> pc, method |-> method, lvl |-> lvl, msg |-> p.msg, args |-> p.args]

\* one call as the wrapped Logger receives it
Invocation(f) == [method |-> f.method, lvl |-> f.lvl, msg |-> f.msg, args |-> f.args]

Zeros == [s \in Methods |-> 0]

VARIABLES
    meter_provider,     \* the provider set_meter_provider() holds: 0 none, else a reader's index
    readers,            \* the PeriodicExportingMetricReaders started, one per provider
    instruments,        \* names of the instruments created on the "gunicorn" meter
    log_counter,        \* "gunicorn.log": value of the series {type: <label>}
    request_histogram,  \* "gunicorn.request.time": bag of samples
    handlers,           \* handlers of logging.getLogger("gunicorn.access")
    pid,                \* getpid() of the executing process
    forks,              \* forks so far
    inits,              \* constructions attempted so far
    configs,            \* the cfg each reader was built from
    lastInit,           \* the last construction: its cfg and how it ended
    threads,            \* per thread: the adapter method it is in
    calls,              \* bag of the calls issued on the adapter
    error_log,          \* bag of the calls the wrapped Logger received
    delivery,           \* the record being handed to the handlers, and the position
    deliveries,         \* records handed over so far
    ticks,              \* ticks of the readers so far
    exported            \* the last batch a reader handed to its exporter

vars == <<meter_provider, readers, instruments, log_counter, request_histogram,
          handlers, pid, forks, inits, configs, lastInit, threads, calls, error_log,
          delivery, deliveries, ticks, exported>>

registryVars == <<meter_provider, readers, instruments, handlers, inits, configs,
                  lastInit>>
logVars == <<threads, calls, error_log>>
accessVars == <<delivery, deliveries>>
procVars == <<pid, forks>>
exportVars == <<ticks, exported>>
instrumentVars == <<log_counter, request_histogram>>

\* ------------------------------------------------------------ registry
AggregationTemporality == {"CUMULATIVE", "DELTA"}

\* variant: delta temporality
temporality_delta == [Counter |-> "DELTA", Histogram |-> "DELTA"]

temporality_cumulative == [Counter |-> "CUMULATIVE", Histogram |-> "CUMULATIVE"]

\* "{port}" in an f-string
Format(value) ==
    IF value.t = "int" THEN Digits(value.i)
    ELSE IF value.t = "none" THEN <<"N", "o", "n", "e">>
    ELSE value.s

\* f"{host}:{port}", the host kept as one token
Endpoint(host, port) == <<host, ":">> \o Format(port)

OTLPMetricExporter(endpoint, insecure, preferred_temporality) ==
    [kind |-> "otlp", endpoint |-> endpoint, insecure |-> insecure,
     preferred_temporality |-> preferred_temporality]

\* writes to standard output; the SDK's default temporality is cumulative
ConsoleMetricExporter ==
    [kind |-> "console", endpoint |-> <<>>, insecure |-> FALSE,
     preferred_temporality |-> [Counter |-> "CUMULATIVE", Histogram |-> "CUMULATIVE"]]

\* variant: the console exporter never selected
Exporter_always_otlp(cfg) ==
    OTLPMetricExporter(Endpoint(cfg.otlp_endpoint[1], cfg.otlp_endpoint[2]),
                       TRUE, temporality_cumulative)

\* the exporter __init__ hands to the reader
Exporter(cfg) ==
    IF cfg.otel_metrics_exporter = "console"
    THEN ConsoleMetricExporter
    ELSE OTLPMetricExporter(Endpoint(cfg.otlp_endpoint[1], cfg.otlp_endpoint[2]),
                            TRUE, temporality_cumulative)

NoBatch == [counter |-> Zeros, histogram |-> 0]

PeriodicExportingMetricReader(exporter, export_interval_millis) ==
    [exporter |-> exporter, export_interval_millis |-> export_interval_millis,
     collected |-> NoBatch, last |-> NoBatch]

UvicornHandler(histogram) == [histogram |-> histogram]

InstrumentNames == {"gunicorn.log", "gunicorn.request.time"}

\* __init__ up to the point where it raises, or to its end.
InitOutcomes(cfg) ==
    IF Len(cfg.otlp_endpoint) # 2
    THEN {"ValueError"}                       \* host, port = cfg.otlp_endpoint
    ELSE LET millis == Float(cfg.otel_exporter_millis) IN
         IF millis.raised # "none"
         THEN {millis.raised}                 \* float(cfg.otel_exporter_millis)
         ELSE IF millis.num > 0
         THEN {"ok"}
         \* the reader of some SDK releases refuses an interval <= 0 with a
         \* ValueError, the reader of others starts with it
         ELSE {"ok", "ValueError"}

Prometheus_init(cfg) ==
    /\ inits < MaxInits
    /\ inits' = inits + 1
    /\ \E outcome \in InitOutcomes(cfg) :
          /\ lastInit' = [cfg |-> cfg, result |-> outcome]
          /\ IF outcome = "ok"
             THEN LET reader == PeriodicExportingMetricReader(
                                    Exporter(cfg), Float(cfg.otel_exporter_millis).num)
                  IN /\ readers' = Append(readers, reader)
                     /\ configs' = Append(configs, cfg)
                     \* set_meter_provider() keeps the first provider it is given
                     /\ meter_provider' = IF meter_provider = 0
                                          THEN Len(readers) + 1
                                          ELSE meter_provider
                     \* get_meter_provider().get_meter("gunicorn").create_*()
                     /\ instruments' = instruments \cup InstrumentNames
                     /\ handlers' = Append(handlers,
                                           UvicornHandler("gunicorn.request.time"))
             ELSE UNCHANGED <<readers, configs, meter_provider, instruments,
                              handlers>>
    /\ UNCHANGED <<instrumentVars, logVars, accessVars, procVars, exportVars>>

\* process ids: the process that starts, and the one a fork gives
Pids == {4821, 4822}

FirstPid == CHOOSE p \in Pids : \A q \in Pids : p <= q

NoRecord == [name |-> "", args |-> [shape |-> "none", map |-> <<>>]]

NoDelivery == [active |-> FALSE, record |-> NoRecord, idx |-> 0,
               result |-> "none", before |-> 0]

Init ==
    /\ meter_provider = 0
    /\ readers = <<>>
    /\ instruments = {}
    /\ log_counter = Zeros
    /\ request_histogram = EmptyBag
    /\ handlers = <<>>
    /\ pid = FirstPid
    /\ forks = 0
    /\ inits = 0
    /\ configs = <<>>
    /\ lastInit = [cfg |-> DefaultCfg, result |-> "none"]
    /\ threads = [t \in Threads |-> Idle]
    /\ calls = EmptyBag
    /\ error_log = EmptyBag
    /\ delivery = NoDelivery
    /\ deliveries = 0
    /\ ticks = 0
    /\ exported = [reader |-> 0, exporter |-> ConsoleMetricExporter, batch |-> NoBatch]

\* ------------------------------------------------- Prometheus (Logger)
AdapterExists == \E i \in 1..Len(handlers) : TRUE

\* Counter.add(amount, attributes): one atomic update of the series
CounterAdd(counter, amount, attributes) ==
    [counter EXCEPT ![attributes.type] = @ + amount]

\* a thread calls adapter.<method>(msg, *args, **kwargs)
Call(t, method, lvl, p) ==
    /\ AdapterExists
    /\ threads[t] = Idle
    /\ BagCardinality(calls) < MaxCalls
    /\ threads' = [threads EXCEPT ![t] = Frame("call", method, lvl, p)]
    /\ calls' = calls (+) SetToBag({Invocation(Frame("call", method, lvl, p))})
    /\ UNCHANGED <<error_log, registryVars, instrumentVars, accessVars, procVars,
                   exportVars>>

\* the two statements of critical / error / warning / exception
Counted(t, method, type) ==
    /\ threads[t].method = method
    /\ \/ /\ threads[t].pc = "call"             \* Logger.<method>(self, msg, ...)
          /\ error_log' = error_log (+) SetToBag({Invocation(threads[t])})
          /\ threads' = [threads EXCEPT ![t].pc = "add"]
          /\ UNCHANGED log_counter
       \/ /\ threads[t].pc = "add"              \* self.log_counter.add(1, {...})
          /\ log_counter' = CounterAdd(log_counter, 1, [type |-> type])
          /\ threads' = [threads EXCEPT ![t] = Idle]
          /\ UNCHANGED error_log
    /\ UNCHANGED <<calls, request_histogram, registryVars, accessVars, procVars,
                   exportVars>>

critical(t) == Counted(t, "critical", "critical")

error(t) == Counted(t, "error", "error")

warning(t) == Counted(t, "warning", "warning")

\* variant: exception counted under the label of error
exception_mislabelled(t) == Counted(t, "exception", "error")

exception(t) == Counted(t, "exception", "exception")

\* info and debug call self.log with their level
Leveled(t, method, lvl) ==
    /\ threads[t].method = method
    /\ threads[t].pc = "call"
    /\ threads' = [threads EXCEPT ![t].method = "log", ![t].lvl = lvl]
    /\ UNCHANGED <<calls, error_log, registryVars, instrumentVars, accessVars,
                   procVars, exportVars>>

\* variant: info counted like the severities
info_counted(t) ==
    /\ threads[t].method = "info"
    /\ threads[t].pc = "call"
    /\ threads' = [threads EXCEPT ![t].method = "log", ![t].lvl = "INFO"]
    /\ log_counter' = CounterAdd(log_counter, 1, [type |-> "info"])
    /\ UNCHANGED <<calls, error_log, registryVars, request_histogram, accessVars,
                   procVars, exportVars>>

info(t) == Leveled(t, "info", "INFO")

debug(t) == Leveled(t, "debug", "DEBUG")

\* Logger.log(self, lvl, msg, *args, **kwargs)
log(t) ==
    /\ threads[t].method = "log"
    /\ threads[t].pc = "call"
    /\ error_log' = error_log (+) SetToBag({Invocation(threads[t])})
    /\ threads' = [threads EXCEPT ![t] = Idle]
    /\ UNCHANGED <<calls, registryVars, instrumentVars, accessVars, procVars,
                   exportVars>>

AdapterStep(t) ==
    \/ \E m \in Methods \ {"log"}, p \in Payloads : Call(t, m, "", p)
    \/ \E lvl \in Levels, p \in Payloads : Call(t, "log", lvl, p)
    \/ critical(t)
    \/ error(t)
    \/ warning(t)
    \/ exception(t)
    \/ info(t)
    \/ debug(t)
    \/ log(t)

\* the adapter is constructed once, then called from the threads
NextLog ==
    \/ inits = 0 /\ Prometheus_init(DefaultCfg)
    \/ \E t \in Threads : AdapterStep(t)

SpecLog == Init /\ [][NextLog]_vars

\* ------------------------------------------------------ UvicornHandler
\* the numbers the access logger writes into a record
NumbersWritten == {200, 1500, 2500}

StatusValues == {PyStr(Digits(200)), PyStr(<<"O", "K">>)}

DurationValues == {PyStr(Digits(1500)), PyInt(2500), PyStr(<<"a">>), PyNone}

Keys == {"s", "D"}

Mappings ==
    UNION {{m \in [K -> StatusValues \cup DurationValues] :
               /\ "s" \in K => m["s"] \in StatusValues
               /\ "D" \in K => m["D"] \in DurationValues} : K \in SUBSET Keys}

\* record.args: None, a tuple of positional arguments, or a mapping
ArgsValues ==
    {[shape |-> "none", map |-> <<>>], [shape |-> "tuple", map |-> <<>>]}
    \cup {[shape |-> "map", map |-> m] : m \in Mappings}

RecordNames == {"uvicorn.access", "gunicorn.access"}

Records == [name : RecordNames, args : ArgsValues]

\* record.args[key]
Subscript(args, key) ==
    IF args.shape # "map" THEN [raised |-> "TypeError", value |-> PyNone]
    ELSE IF key \notin DOMAIN args.map THEN [raised |-> "KeyError", value |-> PyNone]
    ELSE [raised |-> "none", value |-> args.map[key]]

\* x / 10 ** 3 as a decimal with three places
Div1000(x) == [int |-> x \div 1000, thousandths |-> x % 1000]

\* Histogram.record(amount, attributes): one atomic update
HistogramRecord(histogram, amount, attributes) ==
    histogram (+) SetToBag({[value |-> amount, attributes |-> attributes]})

\* variant: no test of record.name
emit_any_channel(record, histogram, worker_pid) ==
    LET status == Subscript(record.args, "s")
        request_time_microseconds == Subscript(record.args, "D")
        micros == Float(request_time_microseconds.value)
    IN IF status.raised # "none"
       THEN [raised |-> status.raised, histogram |-> histogram]
       ELSE IF request_time_microseconds.raised # "none"
       THEN [raised |-> request_time_microseconds.raised, histogram |-> histogram]
       ELSE IF micros.raised # "none"
       THEN [raised |-> micros.raised, histogram |-> histogram]
       ELSE [raised |-> "none",
             histogram |-> HistogramRecord(histogram, Div1000(micros.num),
                               [status |-> status.value, worker_pid |-> worker_pid])]

\* variant: the duration recorded as it came, not divided
emit_microseconds(record, histogram, worker_pid) ==
    IF record.name # "uvicorn.access"
    THEN [raised |-> "none", histogram |-> histogram]
    ELSE LET r == emit_any_channel(record, histogram, worker_pid)
         IN IF r.raised # "none" THEN r
            ELSE [raised |-> "none",
                  histogram |-> HistogramRecord(histogram,
                      [int |-> Float(record.args.map["D"]).num, thousandths |-> 0],
                      [status |-> record.args.map["s"], worker_pid |-> worker_pid])]

\* UvicornHandler.emit(record), run by the process whose id is worker_pid:
\* the exception it raises, if any, and the histogram it leaves
emit(record, histogram, worker_pid) ==
    IF record.name # "uvicorn.access"
    THEN [raised |-> "none", histogram |-> histogram]
    ELSE LET status == Subscript(record.args, "s")
             request_time_microseconds ==
                 IF status.raised = "none"
                 THEN Subscript(record.args, "D")
                 ELSE [raised |-> status.raised, value |-> PyNone]
             micros ==
                 IF request_time_microseconds.raised = "none"
                 THEN Float(request_time_microseconds.value)
                 ELSE [raised |-> request_time_microseconds.raised, num |-> 0]
         IN IF micros.raised # "none"
            THEN [raised |-> micros.raised, histogram |-> histogram]
            ELSE [raised |-> "none",
                  histogram |-> HistogramRecord(histogram, Div1000(micros.num),
                                    [status |-> status.value,
                                     worker_pid |-> worker_pid])]

\* a record is handed to the "gunicorn.access" logger
handle(record) ==
    /\ ~delivery.active
    /\ deliveries < MaxDeliveries
    /\ deliveries' = deliveries + 1
    /\ delivery' = [active |-> TRUE, record |-> record, idx |-> 1,
                    result |-> "running",
                    before |-> BagCardinality(request_histogram)]
    /\ UNCHANGED <<registryVars, instrumentVars, logVars, procVars, exportVars>>

\* the logger calls its handlers in turn; an exception of emit ends the call
callHandlers ==
    /\ delivery.active
    /\ IF delivery.idx > Len(handlers)
       THEN /\ delivery' = [delivery EXCEPT !.active = FALSE, !.result = "returned"]
            /\ UNCHANGED request_histogram
       ELSE LET r == emit(delivery.record, request_histogram, pid)
            IN /\ request_histogram' = r.histogram
               /\ delivery' = IF r.raised = "none"
                              THEN [delivery EXCEPT !.idx = @ + 1]
                              ELSE [delivery EXCEPT !.active = FALSE,
                                                    !.result = r.raised]
    /\ UNCHANGED <<deliveries, log_counter, registryVars, logVars, procVars,
                   exportVars>>

\* the process forks and the child goes on: getpid() changes
fork ==
    /\ forks < MaxForks
    /\ forks' = forks + 1
    /\ \E child \in Pids \ {pid} : pid' = child
    /\ UNCHANGED <<registryVars, instrumentVars, logVars, accessVars, exportVars>>

NextAccess ==
    \/ Prometheus_init(DefaultCfg)
    \/ \E record \in Records : handle(record)
    \/ callHandlers
    \/ fork

SpecAccess == Init /\ [][NextAccess]_vars

\* -------------------------------------------------------------- export
\* what a reader collects: the instruments of the provider that is set
Collect(r) ==
    IF r = meter_provider
    THEN [counter |-> log_counter, histogram |-> BagCardinality(request_histogram)]
    ELSE NoBatch

\* the data point exported for a running total under a temporality
Aggregate(temporality, total, previous) ==
    IF temporality = "CUMULATIVE" THEN total ELSE total - previous

\* one tick of a reader: collect, aggregate, hand the batch to the exporter
Tick(r) ==
    /\ ticks < MaxTicks
    /\ ticks' = ticks + 1
    /\ LET reader == readers[r]
           temporality == reader.exporter.preferred_temporality
           total == Collect(r)
           batch == [counter |-> [s \in Methods |->
                                    Aggregate(temporality.Counter, total.counter[s],
                                              reader.collected.counter[s])],
                     histogram |-> Aggregate(temporality.Histogram, total.histogram,
                                             reader.collected.histogram)]
       IN /\ exported' = [reader |-> r, exporter |-> reader.exporter, batch |-> batch]
          /\ readers' = [readers EXCEPT ![r].collected = total, ![r].last = batch]
    /\ UNCHANGED <<meter_provider, instruments, handlers, inits, configs, lastInit,
                   instrumentVars, logVars, accessVars, procVars>>

AccessRecord ==
    [name |-> "uvicorn.access",
     args |-> [shape |-> "map",
               map |-> [k \in Keys |-> IF k = "s" THEN PyStr(Digits(200))
                                       ELSE PyStr(Digits(1500))]]]

\* construction is attempted, with any cfg, until it succeeds; then the
\* reader ticks while errors are logged and access records arrive
NextExport ==
    \/ \E cfg \in Cfgs : readers = <<>> /\ Prometheus_init(cfg)
    \/ \E r \in 1..Len(readers) : Tick(r)
    \/ Call("t1", "error", "", [msg |-> "boot", args |-> "()"])
    \/ error("t1")
    \/ handle(AccessRecord)
    \/ callHandlers

SpecExport == Init /\ [][NextExport]_vars

\* ---------------------------------------------------------- claims: log
\* calls of `method` in a bag of invocations
CallsOf(bag, method) ==
    LET hit == {e \in BagToSet(bag) : e.method = method}
    IN BagCardinality([e \in hit |-> bag[e]])

\* threads inside `method` that have not yet added to the counter
InFlight(method) == Cardinality({t \in Threads : threads[t].method = method})

\* threads that entered with the invocation and have not yet forwarded it
NotForwarded(inv) ==
    Cardinality({t \in Threads :
                    threads[t].pc = "call" /\ Invocation(threads[t]) = inv})

Quiescent == \A t \in Threads : threads[t] = Idle

\* C1: for every severity s in critical, error, warning, exception, the
\* {type: s} series of the log counter equals the number of completed calls
\* of adapter.s, and the wrapped logger's s method has received exactly the
\* calls issued, with the same message and arguments, however the calls of
\* the threads interleave; so after N calls the series stands at N and the
\* wrapped method was invoked N times.
C1_SeverityCounted ==
    \A s \in Severities :
       /\ log_counter[s] = CallsOf(calls, s) - InFlight(s)
       /\ CallsOf(error_log, s) = CallsOf(calls, s)
            - Cardinality({t \in Threads :
                              threads[t].method = s /\ threads[t].pc = "call"})
       /\ \A e \in BagToSet(calls) \cup BagToSet(error_log) :
             e.method = s =>
               CopiesIn(e, error_log) = CopiesIn(e, calls) - NotForwarded(e)

C1_Witness ==
    /\ Quiescent
    /\ log_counter["exception"] = 2
    /\ log_counter["error"] = 1
    /\ CallsOf(error_log, "exception") = 2
    /\ CallsOf(calls, "exception") = 2

\* C2: no step of adapter.info, adapter.debug or adapter.log changes a
\* series of the log counter or of the request-time histogram; info and
\* debug enter log with their level, and log hands the call, level, message
\* and arguments unchanged, to the wrapped logger's log.
C2_LeveledCountsNothing ==
    [][\A t \in Threads :
          (threads[t].method \in {"info", "debug", "log"} /\ threads'[t] # threads[t])
          => /\ log_counter' = log_counter
             /\ request_histogram' = request_histogram
             /\ threads[t].method = "info"
                  => threads'[t] = [threads[t] EXCEPT !.method = "log", !.lvl = "INFO"]
             /\ threads[t].method = "debug"
                  => threads'[t] = [threads[t] EXCEPT !.method = "log", !.lvl = "DEBUG"]
             /\ threads[t].method = "log"
                  => /\ threads'[t] = Idle
                     /\ error_log' = error_log (+) SetToBag({Invocation(threads[t])})
      ]_vars

C2_Witness ==
    /\ Quiescent
    /\ \E p \in Payloads :
          /\ CopiesIn(Invocation(Frame("call", "info", "", p)), calls) = 1
          /\ CopiesIn(Invocation(Frame("call", "log", "INFO", p)), error_log) = 1
    /\ CallsOf(calls, "debug") = 1
    /\ log_counter["warning"] = 1
    /\ \A s \in Methods \ {"warning"} : log_counter[s] = 0

\* ------------------------------------------------------- claims: access
\* the step is emit() of the handler at delivery.idx on delivery.record
EmitStep ==
    /\ delivery.active
    /\ delivery.idx <= Len(handlers)
    /\ delivery' # delivery

\* the value is the number n, as an int or written out in decimal
Holds(value, n) == value = PyInt(n) \/ value = PyStr(Digits(n))

Numeric(value) == \E n \in NumbersWritten : Holds(value, n)

HasKeys(record) == record.args.shape = "map" /\ Keys \subseteq DOMAIN record.args.map

\* a record of the access channel with a status and a duration of n microseconds
WellFormed(record, n) ==
    /\ record.name = "uvicorn.access"
    /\ HasKeys(record)
    /\ Holds(record.args.map["D"], n)

Added == BagCardinality(request_histogram) - delivery.before

\* C3: emit on a record of channel "uvicorn.access" whose args hold a status
\* under s and a duration of n microseconds under D returns normally and
\* adds exactly one sample to the request-time histogram, of value n / 1000
\* and with the labels status = the record's s and worker_pid = the id of
\* the process executing emit.
C3_OneSamplePerAccessRecord ==
    [][\A n \in NumbersWritten :
          (EmitStep /\ WellFormed(delivery.record, n))
          => /\ delivery'.result = "running"
             /\ \E sample \in BagToSet(request_histogram') :
                   /\ request_histogram' = request_histogram (+) SetToBag({sample})
                   /\ sample.value.int * 1000 + sample.value.thousandths = n
                   /\ sample.value.thousandths \in 0..999
                   /\ sample.attributes = [status |-> delivery.record.args.map["s"],
                                           worker_pid |-> pid]
      ]_vars

C3_Witness ==
    /\ forks = 1
    /\ Len(handlers) = 1
    /\ delivery.result = "returned"
    /\ delivery.record = [name |-> "uvicorn.access",
                          args |-> [shape |-> "map",
                                    map |-> [k \in Keys |->
                                               IF k = "s" THEN PyStr(<<"2", "0", "0">>)
                                               ELSE PyStr(<<"1", "5", "0", "0">>)]]]
    /\ request_histogram =
         SetToBag({[value |-> [int |-> 1, thousandths |-> 500],
                    attributes |-> [status |-> PyStr(<<"2", "0", "0">>),
                                    worker_pid |-> pid]]})

\* C4: emit on a record of any other channel returns normally and changes
\* neither the histogram nor the counter, whatever the record's args are.
C4_OtherChannelIgnored ==
    [][(EmitStep /\ delivery.record.name # "uvicorn.access")
       => /\ delivery'.result = "running"
          /\ request_histogram' = request_histogram
          /\ log_counter' = log_counter
      ]_vars

C4_Witness ==
    /\ delivery.result = "returned"
    /\ Len(handlers) >= 1
    /\ delivery.idx > 1
    /\ delivery.record.name = "gunicorn.access"
    /\ delivery.record.args.shape = "map"
    /\ HasKeys(delivery.record)
    /\ Numeric(delivery.record.args.map["D"])
    /\ request_histogram = EmptyBag

\* C5: once a record of channel "uvicorn.access" whose args lack key D or
\* key s is handed to the bridge, no sample is added and no error is raised.
C5_MissingKeyDropped ==
    (/\ delivery.record.name = "uvicorn.access"
     /\ delivery.record.args.shape = "map"
     /\ ~(Keys \subseteq DOMAIN delivery.record.args.map))
    => /\ delivery.result \in {"running", "returned"}
       /\ Added = 0

\* C6: once a record of channel "uvicorn.access" that holds both s and D,
\* one of them not numeric, is handed to the bridge, no sample is added and
\* no error is raised.
C6_NonNumericDropped ==
    (/\ delivery.record.name = "uvicorn.access"
     /\ HasKeys(delivery.record)
     /\ \/ ~Numeric(delivery.record.args.map["D"])
        \/ ~Numeric(delivery.record.args.map["s"]))
    => /\ delivery.result \in {"running", "returned"}
       /\ Added = 0

\* C10: after one or more constructions of the adapter exactly one bridge
\* is subscribed to the access-log stream, and a well-formed record handed
\* to the stream has added exactly one sample when the call returns.
C10_OneBridge ==
    /\ AdapterExists => Len(handlers) = 1
    /\ (/\ delivery.result = "returned"
        /\ delivery.idx > 1
        /\ \E n \in NumbersWritten : WellFormed(delivery.record, n))
       => Added = 1

\* ------------------------------------------------------- claims: export
\* C8: every tick of a reader built from a cfg whose exporter kind is
\* console hands its batch to the console exporter and to no network
\* exporter; every tick of a reader built from any other cfg (otlp, unset)
\* hands its batch to an OTLP exporter for the cfg's host:port, over an
\* insecure channel, with CUMULATIVE temporality for counters and
\* histograms; and no value a reader exports is lower than the value it
\* exported for the same series at its tick before.
C8_ExporterByKind ==
    [][\A r \in 1..Len(readers) :
          (ticks' = ticks + 1 /\ exported'.reader = r)
          => LET cfg == configs[r]
                 sent == exported'
             IN /\ IF cfg.otel_metrics_exporter = "console"
                   THEN sent.exporter.kind = "console"
                   ELSE /\ sent.exporter.kind = "otlp"
                        /\ sent.exporter.endpoint =
                             <<cfg.otlp_endpoint[1], ":">> \o Format(cfg.otlp_endpoint[2])
                        /\ sent.exporter.insecure
                        /\ sent.exporter.preferred_temporality.Counter = "CUMULATIVE"
                        /\ sent.exporter.preferred_temporality.Histogram = "CUMULATIVE"
                /\ \A s \in Methods :
                      sent.batch.counter[s] >= readers[r].last.counter[s]
                /\ sent.batch.histogram >= readers[r].last.histogram
      ]_vars

C8_Witness ==
    /\ ticks >= 2
    /\ configs[1].otel_metrics_exporter = "unset"
    /\ exported.reader = 1
    /\ exported.exporter.kind = "otlp"
    /\ exported.exporter.endpoint = <<"localhost", ":", "4", "3", "1", "7">>
    /\ exported.batch.counter["error"] = 2
    /\ exported.batch.histogram = 1
    /\ readers[1].last = exported.batch

\* the endpoint is no (host, port) pair of a host name and a port number
MalformedEndpoint(endpoint) ==
    ~(/\ Len(endpoint) = 2
      /\ endpoint[1] # ""
      /\ Float(endpoint[2]).raised = "none"
      /\ Float(endpoint[2]).num \in 1..65535)

NonPositiveInterval(millis) ==
    Float(millis).raised = "none" /\ Float(millis).num <= 0

\* C9: a construction with a malformed exporter endpoint or a non-positive
\* export interval fails, and starts no reader, sets no provider, creates
\* no instrument and subscribes no bridge.
C9_BadConfigRefused ==
    [][(/\ inits' = inits + 1
        /\ \/ MalformedEndpoint(lastInit'.cfg.otlp_endpoint)
           \/ NonPositiveInterval(lastInit'.cfg.otel_exporter_millis))
       => /\ lastInit'.result # "ok"
          /\ UNCHANGED <<readers, meter_provider, instruments, handlers>>
      ]_vars

====
